---- MODULE Spec2Model ----
(***************************************************************************)
(* HuggingFaceEndpoint (src/huggingface_endpoint.py): one client object    *)
(* whose _call method turns (prompt, stop, **kwargs) into one HTTP POST    *)
(* and decodes the reply into a string or an exception.                    *)
(*                                                                         *)
(* Encoding of Python values                                               *)
(*   str whose characters matter   sequence of one-character strings       *)
(*   str used as an atom           TLA+ string                             *)
(*   Optional[T]                   <<>> for None, <<v>> for a value v      *)
(*   dict                          set of <<key, value>> pairs, one per key*)
(*   list                          sequence                                *)
(***************************************************************************)
EXTENDS Integers, Sequences, FiniteSets, TLC

\* ------------------------------------------------------------------ bounds
MaxLen == 3          \* longest text field of a response
MaxPrompt == 2       \* longest prompt
MaxStops == 2        \* longest stop list
MaxSummaryLen == 1   \* longest summary_text of a mapping that also has generated_text

\* ---------------------------------------------------------- Python values
None == <<>>
Some(v) == <<v>>

\* str(x) of an Optional[str] inside an f-string: None prints as "None".
Format(opt) == IF opt = None THEN "None" ELSE opt[1]

Strings(A, n) == UNION {[1..k -> A] : k \in 0..n}

Lists(S, n) == UNION {[1..k -> S] : k \in 0..n}

Keys(d) == {kv[1] : kv \in d}

Get(d, k) == (CHOOSE kv \in d : kv[1] = k)[2]

Dicts(K, V) == UNION {{{<<k, f[k]>> : k \in S} : f \in [S -> V]} : S \in SUBSET K}

VALID_TASKS == <<"text2text-generation", "text-generation", "summarization">>

\* ------------------------------------------------------- pure computations
\* s[n + 1:], an off-by-one in the slice of line 141.
SliceOffByOne(s, n) == IF n + 1 >= Len(s) THEN <<>> ELSE SubSeq(s, n + 2, Len(s))

\* s[n:] for n >= 0: a start beyond the end is clamped to the end.
Slice(s, n) == IF n >= Len(s) THEN <<>> ELSE SubSeq(s, n + 1, Len(s))

\* self.model_kwargs or {}: None and the empty dict are both falsy.
OrEmpty(opt) == IF opt = None \/ opt[1] = {} THEN {} ELSE opt[1]

\* {**b, **a}: the merge with the precedence reversed.
MergeReversed(a, b) == {kv \in b : kv[1] \notin Keys(a)} \cup a

\* {**a, **b}: every key of either, the value of b where both have the key.
Merge(a, b) == {kv \in a : kv[1] \notin Keys(b)} \cup b

\* sep.join(parts)
RECURSIVE Join(_, _)
Join(sep, parts) ==
    IF parts = <<>> THEN <<>>
    ELSE IF Len(parts) = 1 THEN parts[1]
    ELSE parts[1] \o <<sep>> \o Join(sep, Tail(parts))

\* The alternatives of a regular expression: the pattern cut at each "|".
RECURSIVE Alternatives(_)
Alternatives(pattern) ==
    IF \E i \in 1..Len(pattern) : pattern[i] = "|"
    THEN LET i == CHOOSE j \in 1..Len(pattern) :
                     pattern[j] = "|" /\ \A k \in 1..(j - 1) : pattern[k] # "|"
         IN {SubSeq(pattern, 1, i - 1)}
              \cup Alternatives(SubSeq(pattern, i + 1, Len(pattern)))
    ELSE {pattern}

\* One alternative matches s at 0-based offset i; "." matches any character
\* but a newline, every other character of the alphabets matches itself.
MatchesAt(alt, s, i) ==
    /\ i + Len(alt) <= Len(s)
    /\ \A k \in 1..Len(alt) : alt[k] = "." \/ alt[k] = s[i + k]

\* re.split(pattern, s)[0]: s up to the leftmost match of the pattern, the
\* whole of s when nothing matches.  An empty match splits too (Python 3.7 and
\* later), so the empty pattern, which matches at offset 0, leaves "".
SplitFirst(pattern, s) ==
    LET hits == {i \in 0..Len(s) :
                    \E alt \in Alternatives(pattern) : MatchesAt(alt, s, i)}
    IN IF hits = {} THEN s
       ELSE SubSeq(s, 1, CHOOSE i \in hits : \A j \in hits : i <= j)

\* langchain.llms.utils.enforce_stop_tokens:
\*     return re.split("|".join(stop), text)[0]
enforce_stop_tokens(text, stop) == SplitFirst(Join("|", stop), text)

\* ------------------------------------------------------------- exceptions
Raise(exc, msg) == [kind |-> "raise", exc |-> exc, msg |-> msg]

Return(v) == [kind |-> "return", text |-> v]

\* ------------------------------------------------ decoding of the response
\* A decoded response is [kind |-> "dict", map |-> d] or
\* [kind |-> "list", items |-> <<d1, ...>>] with every di a dict.

\* key in generated_text: a dict is searched by key; a list is searched for an
\* element equal to the str, and the elements here are dicts, never a str.
Contains(gt, key) == gt.kind = "dict" /\ key \in Keys(gt.map)

\* generated_text[0][key]: Return(value), or the exception a subscript raises.
Subscript(gt, key) ==
    IF gt.kind = "dict" THEN Raise("KeyError", <<"0">>)
    ELSE IF gt.items = <<>> THEN Raise("IndexError", <<"list index out of range">>)
    ELSE IF key \notin Keys(gt.items[1]) THEN Raise("KeyError", <<key>>)
    ELSE Return(Get(gt.items[1], key))

\* The summarization branch reading the field of the other branches.
SummarizationWrongKey(gt) == Subscript(gt, "generated_text")

\* Branch of line 145.
Summarization(gt) == Subscript(gt, "summary_text")

\* Branch of line 143.
Text2TextGeneration(gt) == Subscript(gt, "generated_text")

\* Branch of line 141: the echoed prompt is cut off by length.
TextGeneration(gt, prompt) ==
    LET field == Subscript(gt, "generated_text")
    IN IF field.kind = "raise" THEN field
       ELSE Return(Slice(field.text, Len(prompt)))

InferenceAPIError(gt) ==
    Raise("ValueError", <<"Error raised by inference API: ", Get(gt.map, "error")>>)

InvalidTaskError(task) ==
    Raise("ValueError", <<"Got invalid task ", Format(task), ", currently only ",
                          VALID_TASKS[1], VALID_TASKS[2], VALID_TASKS[3],
                          " are supported">>)

EndpointError(cause) ==
    Raise("ValueError", <<"Error raised by inference endpoint: ", cause>>)

\* The task is checked before the error payload is looked for.
ExtractTaskFirst(task, gt, prompt) ==
    IF task \notin {Some(VALID_TASKS[i]) : i \in 1..3} THEN InvalidTaskError(task)
    ELSE IF Contains(gt, "error") THEN InferenceAPIError(gt)
    ELSE IF task = Some("text-generation") THEN TextGeneration(gt, prompt)
    ELSE IF task = Some("text2text-generation") THEN Text2TextGeneration(gt)
    ELSE Summarization(gt)

\* The first element of the response is read before the task is checked.
ExtractElementFirst(task, gt, prompt) ==
    IF Contains(gt, "error") THEN InferenceAPIError(gt)
    ELSE IF gt.kind = "dict" \/ gt.items = <<>> THEN Subscript(gt, "generated_text")
    ELSE IF task = Some("text-generation") THEN TextGeneration(gt, prompt)
    ELSE IF task = Some("text2text-generation") THEN Text2TextGeneration(gt)
    ELSE IF task = Some("summarization") THEN Summarization(gt)
    ELSE InvalidTaskError(task)

\* Lines 135-150: the error payload is looked for first, then the task picks
\* the branch; the result is Return(text) or the exception raised.
Extract(task, gt, prompt) ==
    IF Contains(gt, "error") THEN InferenceAPIError(gt)
    ELSE IF task = Some("text-generation") THEN TextGeneration(gt, prompt)
    ELSE IF task = Some("text2text-generation") THEN Text2TextGeneration(gt)
    ELSE IF task = Some("summarization") THEN Summarization(gt)
    ELSE InvalidTaskError(task)

\* Lines 151-155: any stop that is not None goes to enforce_stop_tokens.
Stopped(text, stop) ==
    IF stop # None THEN enforce_stop_tokens(text, stop[1]) ELSE text

\* Lines 115-125 and 129-131: the request that requests.post sends.
Request(self, prompt, kwargs) ==
    LET model_kwargs == OrEmpty(self.model_kwargs)
        params == Merge(model_kwargs, kwargs)
        parameter_payload == [inputs |-> prompt, parameters |-> params]
        headers == [Authorization |-> <<"Bearer ", Format(self.huggingfacehub_api_token)>>,
                    ContentType |-> "application/json"]
    IN [url |-> self.endpoint_url, headers |-> headers, json |-> parameter_payload]

\* _call merging kwargs into self.model_kwargs in place (dict.update on the
\* object's own dict) instead of building a new dict.
SelfAfterCallUpdating(self, kwargs) ==
    IF self.model_kwargs = None \/ self.model_kwargs[1] = {} THEN self
    ELSE [self EXCEPT !.model_kwargs = Some(Merge(@[1], kwargs))]

\* The client object after _call has run: _call assigns no attribute of self
\* and builds params as a new dict.
SelfAfterCall(self, kwargs) == self

\* ------------------------------------------------------------------ state
Threads == {"t1", "t2"}

VARIABLES
    env,             \* os.environ.get("HUGGINGFACEHUB_API_TOKEN"), Optional
    client,          \* None before construction, then Some(the object's fields)
    pc,              \* per thread: where its _call stands
    args,            \* per thread: Some([prompt, stop, kwargs]) of its call
    sent,            \* per thread: the requests its call has posted, in order
    generated_text,  \* per thread: Some(decoded response) after line 134
    text,            \* per thread: Some(text) assigned by lines 139-145
    outcome          \* per thread: Some(Return(..)) or Some(Raise(..)) at the end

vars == <<env, client, pc, args, sent, generated_text, text, outcome>>

frames == <<pc, args, sent, generated_text, text, outcome>>

\* ------------------------------------------------------- inputs of a run
TextAlphabet == {"a", "b"}

Texts == Strings(TextAlphabet, MaxLen)

SummaryTexts == Strings(TextAlphabet, MaxSummaryLen)

StopWords == {<<"a">>, <<"b">>, <<"a", "b">>, <<".">>}

ParamKeys == {"temperature", "top_k"}

ParamValues == {1, 2}

\* The dicts a response list holds: no text field, one of the two, or both.
Mappings ==
    {{}}
    \cup {{<<"generated_text", g>>} : g \in Texts}
    \cup {{<<"summary_text", g>>} : g \in Texts}
    \cup {{<<"generated_text", g>>, <<"summary_text", u>>} :
             g \in Texts, u \in SummaryTexts}

ErrorDicts == {{<<"error", e>>} : e \in {"model not found", "overloaded"}}

DictBodies == {[kind |-> "dict", map |-> d] : d \in ErrorDicts \cup {{}}}

ListBodies ==
    {[kind |-> "list", items |-> l] : l \in Lists(Mappings, 1)}
    \cup {[kind |-> "list", items |-> <<m, n>>] :
             m \in {{<<"generated_text", <<"a">>>>}, {<<"summary_text", <<"a">>>>}},
             n \in {{<<"generated_text", <<"b">>>>}, {<<"summary_text", <<"b">>>>}}}

Undecodable == [kind |-> "invalid"]

\* One thread, every task, texts and stop lists in full.
TextRun ==
    [threads      |-> {"t1"},
     envs         |-> {Some("hf_env")},
     tasks        |-> {None, Some("text-generation"), Some("text2text-generation"),
                       Some("summarization"), Some("fill-mask")},
     model_kwargs |-> {None},
     tokens       |-> {Some("hf_key")},
     prompts      |-> Strings({"a"}, MaxPrompt),
     stops        |-> {None} \cup {Some(l) : l \in Lists(StopWords, MaxStops)},
     kwargs       |-> {{}},
     bodies       |-> {Undecodable} \cup DictBodies \cup ListBodies]

\* Two threads on one client, every configuration of token and parameters.
SharedRun ==
    [threads      |-> Threads,
     envs         |-> {None, Some("hf_env")},
     tasks        |-> {None, Some("text-generation")},
     model_kwargs |-> {None} \cup {Some(d) : d \in Dicts(ParamKeys, ParamValues)},
     tokens       |-> {None, Some("hf_key")},
     prompts      |-> {<<"a">>},
     stops        |-> {None},
     kwargs       |-> Dicts(ParamKeys, ParamValues),
     bodies       |-> {[kind |-> "dict", map |-> {<<"error", "overloaded">>}],
                       [kind |-> "list", items |-> <<{<<"generated_text", <<"a", "b">>>>}>>]}]

TransportFailures == {"ConnectionError", "Timeout"}

\* ---------------------------------------------------------------- actions
InitOf(run) ==
    /\ env \in run.envs
    /\ client = None
    /\ pc = [c \in Threads |-> "idle"]
    /\ args = [c \in Threads |-> None]
    /\ sent = [c \in Threads |-> <<>>]
    /\ generated_text = [c \in Threads |-> None]
    /\ text = [c \in Threads |-> None]
    /\ outcome = [c \in Threads |-> None]

\* HuggingFaceEndpoint(endpoint_url=.., task=.., model_kwargs=..,
\* huggingfacehub_api_token=..): the fields take the arguments, an argument left
\* out takes its default None.  validate_environment is not registered as a
\* validator (line 52 is a comment), so neither the token nor env is looked at.
Construct(run) ==
    /\ client = None
    /\ \E task \in run.tasks, mk \in run.model_kwargs, token \in run.tokens :
          client' = Some([endpoint_url |-> "https://endpoint",
                          task |-> task,
                          model_kwargs |-> mk,
                          huggingfacehub_api_token |-> token])
    /\ UNCHANGED <<env, frames>>

\* Lines 115-131: build the payload and the headers, send the POST.
Call(c, run) ==
    /\ client # None
    /\ pc[c] = "idle"
    /\ \E prompt \in run.prompts, stop \in run.stops, kwargs \in run.kwargs :
          /\ args' = [args EXCEPT ![c] =
                         Some([prompt |-> prompt, stop |-> stop, kwargs |-> kwargs])]
          /\ sent' = [sent EXCEPT ![c] = Append(@, Request(client[1], prompt, kwargs))]
          /\ client' = Some(SelfAfterCall(client[1], kwargs))
    /\ pc' = [pc EXCEPT ![c] = "posted"]
    /\ UNCHANGED <<env, generated_text, text, outcome>>

\* A failed POST is sent once more before the error is raised.
TransportErrorRetrying(c) ==
    /\ pc[c] = "posted"
    /\ IF Len(sent[c]) < 2
       THEN /\ sent' = [sent EXCEPT ![c] = Append(@, @[1])]
            /\ UNCHANGED <<pc, outcome>>
       ELSE /\ \E cause \in TransportFailures :
                  outcome' = [outcome EXCEPT ![c] = Some(EndpointError(cause))]
            /\ pc' = [pc EXCEPT ![c] = "done"]
            /\ UNCHANGED sent
    /\ UNCHANGED <<env, client, args, generated_text, text>>

\* Lines 132-133: requests.post raised a RequestException.
TransportError(c) ==
    /\ pc[c] = "posted"
    /\ \E cause \in TransportFailures :
          outcome' = [outcome EXCEPT ![c] = Some(EndpointError(cause))]
    /\ pc' = [pc EXCEPT ![c] = "done"]
    /\ UNCHANGED <<env, client, args, sent, generated_text, text>>

\* Line 134: the response arrives and response.json() decodes its body.
Receive(c, run) ==
    /\ pc[c] = "posted"
    /\ \E body \in run.bodies :
          IF body = Undecodable
          THEN /\ outcome' = [outcome EXCEPT ![c] =
                                 Some(Raise("JSONDecodeError", <<"Expecting value">>))]
               /\ pc' = [pc EXCEPT ![c] = "done"]
               /\ UNCHANGED generated_text
          ELSE /\ generated_text' = [generated_text EXCEPT ![c] = Some(body)]
               /\ pc' = [pc EXCEPT ![c] = "parsed"]
               /\ UNCHANGED outcome
    /\ UNCHANGED <<env, client, args, sent, text>>

\* Lines 135-150: error payload, then the branch of the task.
Dispatch(c) ==
    /\ pc[c] = "parsed"
    /\ LET got == Extract(client[1].task, generated_text[c][1], args[c][1].prompt)
       IN IF got.kind = "raise"
          THEN /\ outcome' = [outcome EXCEPT ![c] = Some(got)]
               /\ pc' = [pc EXCEPT ![c] = "done"]
               /\ UNCHANGED text
          ELSE /\ text' = [text EXCEPT ![c] = Some(got.text)]
               /\ pc' = [pc EXCEPT ![c] = "extracted"]
               /\ UNCHANGED outcome
    /\ UNCHANGED <<env, client, args, sent, generated_text>>

\* Lines 151-155: stop tokens, then return.  text[c] keeps the value of lines
\* 139-145; the value after line 154 is the one returned.
ReturnText(c) ==
    /\ pc[c] = "extracted"
    /\ outcome' = [outcome EXCEPT ![c] = Some(Return(Stopped(text[c][1], args[c][1].stop)))]
    /\ pc' = [pc EXCEPT ![c] = "done"]
    /\ UNCHANGED <<env, client, args, sent, generated_text, text>>

NextOf(run) ==
    \/ Construct(run)
    \/ \E c \in run.threads :
          \/ Call(c, run)
          \/ TransportError(c)
          \/ Receive(c, run)
          \/ Dispatch(c)
          \/ ReturnText(c)

Init == InitOf(TextRun)

Next == NextOf(TextRun)

Spec == Init /\ [][Next]_vars

InitShared == InitOf(SharedRun)

NextShared == NextOf(SharedRun)

SpecShared == InitShared /\ [][NextShared]_vars

\* ----------------------------------------------------------------- claims
Finished(c) == pc[c] = "done"

\* The first element of the decoded response of c has the field key.
FirstHas(c, key) ==
    /\ generated_text[c] # None
    /\ generated_text[c][1].kind = "list"
    /\ generated_text[c][1].items # <<>>
    /\ key \in Keys(generated_text[c][1].items[1])

FirstField(c, key) == Get(generated_text[c][1].items[1], key)

Returned(c, v) == outcome[c] = Some([kind |-> "return", text |-> v])

\* r is g without its first n characters (nothing is left when g is shorter).
IsSuffixAfter(r, g, n) ==
    LET k == IF n <= Len(g) THEN n ELSE Len(g)
    IN /\ Len(r) = Len(g) - k
       /\ \A i \in 1..Len(r) : r[i] = g[k + i]

\* C1: for task "text-generation" without stop, a finished call whose response
\* is a sequence with [0]["generated_text"] = G returns G without its first
\* len(prompt) characters, whether or not G begins with the prompt; when G is
\* shorter than the prompt it returns the empty string and raises nothing.
C1_TextGenerationDropsPromptLength ==
    \A c \in Threads :
        (/\ Finished(c)
         /\ client[1].task = Some("text-generation")
         /\ args[c][1].stop = None
         /\ FirstHas(c, "generated_text"))
        => /\ outcome[c][1].kind = "return"
           /\ IsSuffixAfter(outcome[c][1].text, FirstField(c, "generated_text"),
                            Len(args[c][1].prompt))

\* A text-generation call has returned "" for a G that is shorter than the
\* prompt and does not begin like it.
C1_Witness ==
    \E c \in Threads :
        /\ Finished(c)
        /\ client[1].task = Some("text-generation")
        /\ args[c][1].stop = None
        /\ args[c][1].prompt = <<"a", "a">>
        /\ FirstHas(c, "generated_text")
        /\ FirstField(c, "generated_text") = <<"b">>
        /\ Returned(c, <<>>)

\* C6: without stop, task "text2text-generation" returns [0]["generated_text"]
\* verbatim and task "summarization" returns [0]["summary_text"] verbatim,
\* whatever the prompt.
C6_VerbatimFields ==
    \A c \in Threads :
        (Finished(c) /\ args[c][1].stop = None)
        => /\ (client[1].task = Some("text2text-generation") /\ FirstHas(c, "generated_text"))
              => Returned(c, FirstField(c, "generated_text"))
           /\ (client[1].task = Some("summarization") /\ FirstHas(c, "summary_text"))
              => Returned(c, FirstField(c, "summary_text"))

\* A summarization call has returned a summary_text that differs from the
\* generated_text next to it and that begins with the prompt.
C6_Witness ==
    \E c \in Threads :
        /\ Finished(c)
        /\ client[1].task = Some("summarization")
        /\ args[c][1].stop = None
        /\ args[c][1].prompt = <<"a">>
        /\ FirstHas(c, "summary_text")
        /\ FirstHas(c, "generated_text")
        /\ FirstField(c, "summary_text") = <<"a">>
        /\ FirstField(c, "generated_text") = <<"b", "a">>
        /\ Returned(c, <<"a">>)

\* The decoded response of c is a mapping with the key "error".
ErrorPayload(c) ==
    /\ generated_text[c] # None
    /\ generated_text[c][1].kind = "dict"
    /\ "error" \in Keys(generated_text[c][1].map)

\* The outcome of c is the error of the given kind: the spec's InferenceError,
\* TransportError and UnsupportedTaskError are the three ValueErrors of _call,
\* told apart by the way their message begins.
Failed(c, start) ==
    /\ outcome[c] # None
    /\ outcome[c][1].kind = "raise"
    /\ outcome[c][1].exc = "ValueError"
    /\ outcome[c][1].msg[1] = start

InferenceError(c) == Failed(c, "Error raised by inference API: ")

UnsupportedTaskError(c) == Failed(c, "Got invalid task ")

TransportFailed(c) == Failed(c, "Error raised by inference endpoint: ")

ValidTaskNames == {"text-generation", "text2text-generation", "summarization"}

\* C3: a decoded response that is a mapping with key "error" makes the call
\* fail with InferenceError carrying the error value, for every task and every
\* stop, and no text is extracted or returned; a response that is a sequence of
\* mappings never gives InferenceError.
C3_ErrorPayloadRaises ==
    \A c \in Threads :
        /\ ErrorPayload(c)
           => /\ pc[c] \in {"parsed", "done"}
              /\ text[c] = None
              /\ Finished(c)
                 => /\ InferenceError(c)
                    /\ outcome[c][1].msg
                         = <<"Error raised by inference API: ",
                             Get(generated_text[c][1].map, "error")>>
        /\ (generated_text[c] # None /\ generated_text[c][1].kind = "list")
           => ~InferenceError(c)

\* A call with an unset task and a stop list has failed on {"error": "model
\* not found"} with that message.
C3_Witness ==
    \E c \in Threads :
        /\ Finished(c)
        /\ client[1].task = None
        /\ args[c][1].stop = Some(<<<<"a">>>>)
        /\ ErrorPayload(c)
        /\ InferenceError(c)
        /\ outcome[c][1].msg[2] = "model not found"

\* C4: with the task unset or outside the three valid names, a call whose POST
\* succeeded with a decoded response that is no error payload fails with
\* UnsupportedTaskError naming the task and the three valid names; it has sent
\* its request and decoded the response, and has read no text and applied no
\* stop.
C4_InvalidTaskRaises ==
    \A c \in Threads :
        /\ (/\ Finished(c)
            /\ generated_text[c] # None
            /\ ~ErrorPayload(c)
            /\ \A t \in ValidTaskNames : client[1].task # Some(t))
           => /\ UnsupportedTaskError(c)
              /\ outcome[c][1].msg[2] = Format(client[1].task)
              /\ ValidTaskNames
                   \subseteq {outcome[c][1].msg[i] : i \in 1..Len(outcome[c][1].msg)}
        /\ UnsupportedTaskError(c)
           => /\ Len(sent[c]) = 1
              /\ generated_text[c] # None
              /\ text[c] = None

\* A call with task "fill-mask" and a stop list has failed with
\* UnsupportedTaskError on the empty list, which has no element to read.
C4_Witness ==
    \E c \in Threads :
        /\ Finished(c)
        /\ client[1].task = Some("fill-mask")
        /\ args[c][1].stop # None
        /\ generated_text[c] = Some([kind |-> "list", items |-> <<>>])
        /\ UnsupportedTaskError(c)
        /\ outcome[c][1].msg[2] = "fill-mask"

\* The characters of w stand in t from 0-based index i on.
OccursAt(w, t, i) ==
    /\ i + Len(w) <= Len(t)
    /\ \A k \in 1..Len(w) : t[i + k] = w[k]

Occurs(w, t) == \E i \in 0..Len(t) : OccursAt(w, t, i)

FirstIndex(w, t) == CHOOSE i \in 0..Len(t) : OccursAt(w, t, i) /\ \A j \in 0..(i - 1) : ~OccursAt(w, t, j)

\* t cut at the least first-occurrence index of the stop sequences that occur
\* in it, t itself when none occurs.
TruncatedAtEarliest(t, stop) ==
    LET found == {j \in 1..Len(stop) : Occurs(stop[j], t)}
        cuts == {FirstIndex(stop[j], t) : j \in found}
    IN IF found = {} THEN t
       ELSE SubSeq(t, 1, CHOOSE i \in cuts : \A j \in cuts : i <= j)

\* C2: with a non-empty stop list of non-empty strings, a call that extracted
\* a text returns it cut at the least index at which one of the stop sequences
\* first occurs, and returns it whole when none occurs, for every task.
C2_StopCutsAtEarliestOccurrence ==
    \A c \in Threads :
        (/\ Finished(c)
         /\ text[c] # None
         /\ args[c][1].stop # None
         /\ args[c][1].stop[1] # <<>>
         /\ \A j \in 1..Len(args[c][1].stop[1]) : args[c][1].stop[1][j] # <<>>)
        => Returned(c, TruncatedAtEarliest(text[c][1], args[c][1].stop[1]))

\* C9: when stop is absent or is the empty sequence, a call that extracted a
\* text returns that text unmodified.
C9_NoTruncationWithoutStops ==
    \A c \in Threads :
        (/\ Finished(c)
         /\ text[c] # None
         /\ (args[c][1].stop = None \/ args[c][1].stop = Some(<<>>)))
        => Returned(c, text[c][1])

\* C7: the body posted is {"inputs": prompt, "parameters": P}; P has every key
\* of model_kwargs and of the call's kwargs, with the call's value for every
\* key of kwargs; an unset model_kwargs counts as empty, so that P is kwargs.
C7_ParametersMerged ==
    \A c \in Threads :
        sent[c] # <<>>
        => LET body == sent[c][1].json
               P == body.parameters
               kw == args[c][1].kwargs
               mk == client[1].model_kwargs
           IN /\ DOMAIN body = {"inputs", "parameters"}
              /\ body.inputs = args[c][1].prompt
              /\ \A kv \in kw : kv \in P
              /\ \A k \in Keys(kw) : \A kv \in P : kv[1] = k => kv \in kw
              /\ mk # None => Keys(mk[1]) \subseteq Keys(P)
              /\ mk = None => P = kw

\* A request went out whose kwargs overrode top_k of model_kwargs and left its
\* temperature in place.
C7_Witness ==
    \E c \in Threads :
        /\ sent[c] # <<>>
        /\ client[1].model_kwargs = Some({<<"top_k", 1>>, <<"temperature", 1>>})
        /\ args[c][1].kwargs = {<<"top_k", 2>>}
        /\ sent[c][1].json.parameters = {<<"top_k", 2>>, <<"temperature", 1>>}

\* C8: a call that has started has sent exactly one POST, whatever its outcome;
\* a call whose POST failed in transport ended with TransportError without a
\* decoded response or a text; a call has an outcome, one result or one error,
\* exactly when it has ended.
C8_OnePostOneOutcome ==
    \A c \in Threads :
        /\ Len(sent[c]) = (IF pc[c] = "idle" THEN 0 ELSE 1)
        /\ (outcome[c] # None) <=> Finished(c)
        /\ Finished(c) => outcome[c][1].kind \in {"return", "raise"}
        /\ (Finished(c) /\ outcome[c][1].kind = "return") => text[c] # None
        /\ TransportFailed(c)
           => /\ Finished(c)
              /\ generated_text[c] = None
              /\ text[c] = None

\* One call ended with TransportError after its single POST while the other
\* call on the same client returned a text.
C8_Witness ==
    /\ TransportFailed("t1")
    /\ Len(sent["t1"]) = 1
    /\ Finished("t2")
    /\ outcome["t2"][1].kind = "return"
    /\ Len(sent["t2"]) = 1

\* What a call yields when it runs alone on the client self and is answered
\* with the decoded response gt.
AloneOutcome(self, a, gt) ==
    LET got == Extract(self.task, gt, a.prompt)
    IN IF got.kind = "raise" THEN got ELSE Return(Stopped(got.text, a.stop))

AsIfAlone ==
    \A c \in Threads :
        /\ sent[c] # <<>>
           => sent[c] = <<Request(client[1], args[c][1].prompt, args[c][1].kwargs)>>
        /\ (Finished(c) /\ generated_text[c] # None)
           => outcome[c] = Some(AloneOutcome(client[1], args[c][1], generated_text[c][1]))

\* C10: no step of a call changes the client's endpoint_url, task,
\* model_kwargs or token, and under every interleaving of the calls each
\* call's request and result are those of the call run alone on the client as
\* constructed.
C10_CallsLeaveClientAlone ==
    /\ [][client # None => client' = client]_vars
    /\ []AsIfAlone

\* Both threads have finished calls whose kwargs overrode top_k with different
\* values, and model_kwargs still holds its own top_k.
C10_Witness ==
    /\ Finished("t1")
    /\ Finished("t2")
    /\ client[1].model_kwargs = Some({<<"top_k", 1>>})
    /\ args["t1"][1].kwargs = {<<"top_k", 2>>}
    /\ args["t2"][1].kwargs = {<<"top_k", 1>>, <<"temperature", 2>>}
    /\ outcome["t1"][1].kind = "return"
    /\ outcome["t2"][1].kind = "return"

\* C5: a client with neither an explicit token nor HUGGINGFACEHUB_API_TOKEN is
\* never constructed, and no POST carries an absent token in Authorization.
C5_MissingTokenRejected ==
    /\ client # None
       => ~(client[1].huggingfacehub_api_token = None /\ env = None)
    /\ \A c \in Threads : \A i \in 1..Len(sent[c]) :
          sent[c][i].headers.Authorization # <<"Bearer ", "None">>
====
